---- MODULE Spec2Model ----
(***************************************************************************)
(* Model of scripts/swift_packages.py: resolution of the Swift Package     *)
(* Manager dependencies of an Xcode project.  The disk (lockfile, cache    *)
(* directories, checkouts, manifests) is the state; get_all_dependencies   *)
(* and resolve_module_to_package are the operations.                       *)
(*                                                                         *)
(* Conventions.  A JSON object or a Python dict is a function whose        *)
(* DOMAIN is its key set, so `"k" in d` is "k" \in DOMAIN d.  Python None  *)
(* and JSON null are the string None.  A file is a record with an `exists` *)
(* flag.  A manifest text is the sequence of its lexical tokens.  An       *)
(* insertion-ordered dict is a sequence of entries with distinct names.    *)
(* Directory operations (exists, iterdir, glob, stat) are total: the model *)
(* covers disks on which they succeed; only open() of a manifest may fail. *)
(***************************************************************************)
EXTENDS Integers, Sequences, FiniteSets, TLC

VARIABLES disk, result, prev, lookup, base, degraded, docs, parsed, loc

vars == <<disk, result, prev, lookup, base, degraded, docs, parsed, loc>>

None == "<None>"

(***************************************************************************)
(* Bounds of the model.                                                    *)
(***************************************************************************)
MaxPins == 2
MaxDirs == 2
MaxCacheDirs == 2
MaxMtime == 2

(***************************************************************************)
(* Strings.  str.lower() and the code-point order used by sorted(), on the *)
(* strings of the model.                                                   *)
(***************************************************************************)
Lower(s) ==
  CASE s = "Alpha" -> "alpha"
    [] s = "ALPHA" -> "alpha"
    [] s = "Beta" -> "beta"
    [] s = "Unknown" -> "unknown"
    [] OTHER -> s

Names == <<"ALPHA", "Alpha", "Beta", "Cli", "Core", "CoreTests", "Unknown",
           "alpha", "beta", "nonexistent">>

Ord(s) == CHOOSE i \in 1..Len(Names) : Names[i] = s

StrLess(a, b) == Ord(a) < Ord(b)

Truthy(x) == x # None /\ x # ""

RECURSIVE InsertSorted(_, _)
InsertSorted(sorted, x) ==
  IF sorted = <<>> THEN <<x>>
  ELSE IF StrLess(x, Head(sorted)) THEN <<x>> \o sorted
  ELSE <<Head(sorted)>> \o InsertSorted(Tail(sorted), x)

RECURSIVE Sorted(_)
Sorted(xs) ==
  IF xs = <<>> THEN <<>>
  ELSE InsertSorted(Sorted(SubSeq(xs, 1, Len(xs) - 1)), xs[Len(xs)])

(***************************************************************************)
(* Lockfile: find_package_resolved, parse_package_resolved,                *)
(* extract_package_info.                                                   *)
(***************************************************************************)
find_package_resolved(d) ==
  IF d.primary.exists THEN [ok |-> TRUE, error |-> None, file |-> d.primary]
  ELSE IF d.fallback.exists THEN [ok |-> TRUE, error |-> None, file |-> d.fallback]
  ELSE [ok |-> FALSE, error |-> "FileNotFoundError", file |-> d.primary]

\* Faulty variant: the nested shape is not recognised.
parse_package_resolved_top_only(data) ==
  IF "pins" \in DOMAIN data
    THEN [ok |-> TRUE, error |-> None, pins |-> data.pins]
  ELSE [ok |-> FALSE, error |-> "ValueError", pins |-> <<>>]

parse_package_resolved(data) ==
  IF "pins" \in DOMAIN data
    THEN [ok |-> TRUE, error |-> None, pins |-> data.pins]
  ELSE IF "object" \in DOMAIN data /\ "pins" \in DOMAIN data.object
    THEN [ok |-> TRUE, error |-> None, pins |-> data.object.pins]
  ELSE [ok |-> FALSE, error |-> "ValueError", pins |-> <<>>]

StateVersion(pin) ==
  LET hasState == "state" \in DOMAIN pin
      version == IF hasState /\ "version" \in DOMAIN pin.state
                   THEN pin.state.version ELSE None
      revision == IF hasState /\ "revision" \in DOMAIN pin.state
                    THEN pin.state.revision ELSE "unknown"
  IN  IF Truthy(version) THEN version ELSE revision

extract_package_info(pin) ==
  [name |-> IF "package" \in DOMAIN pin THEN pin.package
            ELSE IF "identity" \in DOMAIN pin THEN pin.identity
            ELSE "Unknown",
   url |-> IF "repositoryURL" \in DOMAIN pin THEN pin.repositoryURL
           ELSE IF "location" \in DOMAIN pin THEN pin.location
           ELSE None,
   version |-> StateVersion(pin)]

(***************************************************************************)
(* Cache: find_derived_data_path.  A cache directory is named              *)
(* <stem>-<id>; glob("<normalized>-*") matches it when its stem is the     *)
(* normalized project name.  co says what SourcePackages/checkouts is:     *)
(* "none" (absent), "empty" (a directory with no entries) or "tree" (the   *)
(* directory whose entries are d.tree).                                    *)
(***************************************************************************)
Normalize(project_name) ==
  CASE project_name = "My App" -> "My_App"
    [] OTHER -> project_name

GlobMatches(dir, normalized) == dir.stem = normalized

RECURSIVE Filter(_, _)
Filter(dirs, normalized) ==
  IF dirs = <<>> THEN <<>>
  ELSE (IF GlobMatches(Head(dirs), normalized) THEN <<Head(dirs)>> ELSE <<>>)
       \o Filter(Tail(dirs), normalized)

\* max(matching_dirs, key=mtime): the first directory of greatest mtime.
MaxByMtime(dirs) ==
  LET i == CHOOSE i \in 1..Len(dirs) :
             /\ \A j \in 1..Len(dirs) : dirs[j].mtime <= dirs[i].mtime
             /\ \A j \in 1..(i - 1) : dirs[j].mtime < dirs[i].mtime
  IN  dirs[i]

find_derived_data_path(d) ==
  IF ~d.derived.base THEN [ok |-> FALSE, error |-> "FileNotFoundError", checkouts |-> <<>>]
  ELSE LET matching_dirs == Filter(d.derived.dirs, Normalize(d.project))
       IN  IF matching_dirs = <<>>
             THEN [ok |-> FALSE, error |-> "FileNotFoundError", checkouts |-> <<>>]
           ELSE LET derived_data_dir == MaxByMtime(matching_dirs)
                IN  IF derived_data_dir.co = "none"
                      THEN [ok |-> FALSE, error |-> "FileNotFoundError", checkouts |-> <<>>]
                    ELSE [ok |-> TRUE, error |-> None,
                          checkouts |-> IF derived_data_dir.co = "tree" THEN d.tree ELSE <<>>]

(***************************************************************************)
(* Manifest lookup and reading: find_package_swift_in_derived_data,        *)
(* read_package_swift.  A found manifest is named by its directory.        *)
(***************************************************************************)
HasManifest(entry) == entry.is_dir /\ entry.has_manifest

\* Faulty variant: the scan runs without trying the exact name first.
find_package_swift_scan_only(checkouts_dir, package_identity) ==
  LET scan == {i \in 1..Len(checkouts_dir) :
                 /\ checkouts_dir[i].is_dir
                 /\ Lower(checkouts_dir[i].name) = Lower(package_identity)
                 /\ HasManifest(checkouts_dir[i])}
  IN  IF scan # {}
        THEN checkouts_dir[CHOOSE i \in scan : \A j \in scan : i <= j].name
      ELSE None

find_package_swift_in_derived_data(checkouts_dir, package_identity) ==
  LET exact == {i \in 1..Len(checkouts_dir) :
                  /\ checkouts_dir[i].name = package_identity
                  /\ HasManifest(checkouts_dir[i])}
      scan == {i \in 1..Len(checkouts_dir) :
                 /\ checkouts_dir[i].is_dir
                 /\ Lower(checkouts_dir[i].name) = Lower(package_identity)
                 /\ HasManifest(checkouts_dir[i])}
  IN  IF exact # {} THEN checkouts_dir[CHOOSE i \in exact : TRUE].name
      ELSE IF scan # {}
        THEN checkouts_dir[CHOOSE i \in scan : \A j \in scan : i <= j].name
      ELSE None

EntryNamed(checkouts_dir, name) ==
  checkouts_dir[CHOOSE i \in 1..Len(checkouts_dir) : checkouts_dir[i].name = name]

\* None when open() or read() raises.
read_package_swift(checkouts_dir, path) ==
  LET e == EntryNamed(checkouts_dir, path)
  IN  IF e.readable THEN [ok |-> TRUE, content |-> e.content]
      ELSE [ok |-> FALSE, content |-> <<>>]

(***************************************************************************)
(* Manifest text: parse_package_name_from_package_swift,                   *)
(* parse_targets_from_package_swift.  Tokens: "Package" is `Package(`,     *)
(* "target", "exec", "test" are `.target(`, `.executableTarget(`,          *)
(* `.testTarget(`, "name" is `name: "<s>"`, "close" is `)`, "other" is any *)
(* text without a parenthesis.                                             *)
(***************************************************************************)
\* Package\s*\([^)]*?name\s*:\s*"([^"]+)" at position i: the first name
\* token after i with no `)` in between.
NameMatchAt(content, i) ==
  {j \in (i + 1)..Len(content) :
     /\ content[j].t = "name"
     /\ \A k \in (i + 1)..(j - 1) : content[k].t \notin {"close", "name"}}

parse_package_name_from_package_swift(text) ==
  IF ~text.ok \/ text.content = <<>> THEN None
  ELSE LET content == text.content
           starts == {i \in 1..Len(content) :
                        content[i].t = "Package" /\ NameMatchAt(content, i) # {}}
       IN  IF starts = {} THEN None
           ELSE LET i == CHOOSE i \in starts : \A k \in starts : i <= k
                    j == CHOOSE j \in NameMatchAt(content, i) : TRUE
                IN  content[j].s

RECURSIVE FindAll(_, _, _)
FindAll(content, kind, i) ==
  IF i >= Len(content) THEN <<>>
  ELSE (IF content[i].t = kind /\ content[i + 1].t = "name"
          THEN <<content[i + 1].s>> ELSE <<>>)
       \o FindAll(content, kind, i + 1)

\* Faulty variant: the .testTarget pattern is matched as well.
parse_targets_with_tests(text) ==
  IF ~text.ok \/ text.content = <<>> THEN <<>>
  ELSE FindAll(text.content, "target", 1) \o FindAll(text.content, "exec", 1)
       \o FindAll(text.content, "test", 1)

parse_targets_from_package_swift(text) ==
  IF ~text.ok \/ text.content = <<>> THEN <<>>
  ELSE FindAll(text.content, "target", 1) \o FindAll(text.content, "exec", 1)

(***************************************************************************)
(* get_all_dependencies and resolve_module_to_package.                     *)
(***************************************************************************)
\* Faulty variant: an existing key keeps its value (setdefault).
put_first_wins(dependencies, e) ==
  IF \E i \in 1..Len(dependencies) : dependencies[i].name = e.name
    THEN dependencies
  ELSE Append(dependencies, e)

\* dependencies[name] = info: an existing key keeps its position.
Put(dependencies, e) ==
  IF \E i \in 1..Len(dependencies) : dependencies[i].name = e.name
    THEN [i \in 1..Len(dependencies) |->
            IF dependencies[i].name = e.name THEN e ELSE dependencies[i]]
  ELSE Append(dependencies, e)

\* One iteration of `for pin in pins`: the entry the iteration stores, with
\* the directory of the manifest it used (None when it used none).
ProcessPin(pin, cache) ==
  LET pkg_info == extract_package_info(pin)
      package_swift_path ==
        IF cache.ok THEN find_package_swift_in_derived_data(cache.checkouts, pkg_info.name)
        ELSE None
      text == IF package_swift_path # None
                THEN read_package_swift(cache.checkouts, package_swift_path)
              ELSE [ok |-> FALSE, content |-> <<>>]
      parsed_name == parse_package_name_from_package_swift(text)
      targets == parse_targets_from_package_swift(text)
  IN  [path |-> package_swift_path,
       name |-> IF Truthy(parsed_name) THEN parsed_name ELSE pkg_info.name,
       version |-> pkg_info.version,
       repo |-> IF Truthy(pkg_info.url) THEN pkg_info.url ELSE None,
       exported_modules |-> IF targets # <<>> THEN Sorted(targets) ELSE <<>>]

Entry(t) ==
  [name |-> t.name, version |-> t.version, repo |-> t.repo,
   exported_modules |-> t.exported_modules]

RECURSIVE Assemble(_)
Assemble(trace) ==
  IF trace = <<>> THEN <<>>
  ELSE Put(Assemble(SubSeq(trace, 1, Len(trace) - 1)), Entry(trace[Len(trace)]))

NotRun == [status |-> "none", error |-> None, deps |-> <<>>, trace |-> <<>>]

Failure(e) == [status |-> "raised", error |-> e, deps |-> <<>>, trace |-> <<>>]

\* The loop over the pins, once the lockfile is parsed.
PinLoop(pins, cache) ==
  LET trace == [i \in 1..Len(pins) |-> ProcessPin(pins[i], cache)]
  IN  [status |-> "ok", error |-> None, deps |-> Assemble(trace), trace |-> trace]

\* Faulty variant: the FileNotFoundError of find_derived_data_path is not caught.
get_all_dependencies_no_catch(d, verbose) ==
  LET resolved_path == find_package_resolved(d)
  IN  IF ~resolved_path.ok THEN Failure(resolved_path.error)
      ELSE LET pins == parse_package_resolved(resolved_path.file.data)
           IN  IF ~pins.ok THEN Failure(pins.error)
               ELSE LET cache == find_derived_data_path(d)
                    IN  IF ~cache.ok THEN Failure(cache.error)
                        ELSE PinLoop(pins.pins, cache)

\* Faulty variant: a manifest that cannot be read aborts the call.
get_all_dependencies_abort_on_read(d, verbose) ==
  LET resolved_path == find_package_resolved(d)
  IN  IF ~resolved_path.ok THEN Failure(resolved_path.error)
      ELSE LET pins == parse_package_resolved(resolved_path.file.data)
           IN  IF ~pins.ok THEN Failure(pins.error)
               ELSE LET cache == find_derived_data_path(d)
                        r == PinLoop(pins.pins, cache)
                    IN  IF \E i \in 1..Len(r.trace) :
                             /\ r.trace[i].path # None
                             /\ ~EntryNamed(cache.checkouts, r.trace[i].path).readable
                          THEN Failure("PermissionError")
                        ELSE r

\* Faulty variant: the verbose branch skips the module extraction.
get_all_dependencies_verbose_skips(d, verbose) ==
  LET resolved_path == find_package_resolved(d)
  IN  IF ~resolved_path.ok THEN Failure(resolved_path.error)
      ELSE LET pins == parse_package_resolved(resolved_path.file.data)
           IN  IF ~pins.ok THEN Failure(pins.error)
               ELSE LET cache == find_derived_data_path(d)
                    IN  IF verbose
                          THEN PinLoop(pins.pins, [cache EXCEPT !.checkouts = <<>>])
                        ELSE PinLoop(pins.pins, cache)

\* verbose only writes to stderr, which is not part of the state.
get_all_dependencies(d, verbose) ==
  LET resolved_path == find_package_resolved(d)
  IN  IF ~resolved_path.ok THEN Failure(resolved_path.error)
      ELSE LET pins == parse_package_resolved(resolved_path.file.data)
           IN  IF ~pins.ok THEN Failure(pins.error)
               ELSE PinLoop(pins.pins, find_derived_data_path(d))

\* Faulty variant: the exported modules are scanned before the keys.
resolve_module_to_package_modules_first(module_or_package, dependencies) ==
  LET n == Len(dependencies)
      exporting == {i \in 1..n :
                      \E k \in 1..Len(dependencies[i].exported_modules) :
                        dependencies[i].exported_modules[k] = module_or_package}
  IN  IF exporting # {}
        THEN dependencies[CHOOSE i \in exporting : \A j \in exporting : i <= j].name
      ELSE IF \E i \in 1..n : dependencies[i].name = module_or_package
        THEN module_or_package
      ELSE None

resolve_module_to_package(module_or_package, dependencies) ==
  LET n == Len(dependencies)
      exporting == {i \in 1..n :
                      \E k \in 1..Len(dependencies[i].exported_modules) :
                        dependencies[i].exported_modules[k] = module_or_package}
  IN  IF \E i \in 1..n : dependencies[i].name = module_or_package
        THEN module_or_package
      ELSE IF exporting # {}
        THEN dependencies[CHOOSE i \in exporting : \A j \in exporting : i <= j].name
      ELSE None

(***************************************************************************)
(* The disks of the model.                                                 *)
(***************************************************************************)
Tok(t) == [t |-> t, s |-> ""]
NameTok(s) == [t |-> "name", s |-> s]

\* Package(name: "Alpha", targets: [.target(name: "Core"),
\*   .testTarget(name: "CoreTests")])
ManifestAlpha ==
  <<Tok("Package"), NameTok("Alpha"), Tok("other"),
    Tok("target"), NameTok("Core"), Tok("close"),
    Tok("test"), NameTok("CoreTests"), Tok("close"), Tok("close")>>

\* Package(name: "Alpha", targets: [.target(name: "Core"),
\*   .executableTarget(name: "Cli", dependencies: [.target(name: "Core")])])
ManifestAlphaCli ==
  <<Tok("Package"), NameTok("Alpha"), Tok("other"),
    Tok("target"), NameTok("Core"), Tok("close"),
    Tok("exec"), NameTok("Cli"), Tok("other"),
    Tok("target"), NameTok("Core"), Tok("close"), Tok("close"), Tok("close")>>

\* Package(name: "Beta", targets: [.target(name: "Core"), .target(name: "Alpha")])
ManifestBeta ==
  <<Tok("Package"), NameTok("Beta"), Tok("other"),
    Tok("target"), NameTok("Core"), Tok("close"),
    Tok("target"), NameTok("Alpha"), Tok("close"), Tok("close")>>

\* A manifest with targets and no Package(name: ...) declaration.
ManifestNoName ==
  <<Tok("other"), Tok("exec"), NameTok("Cli"), Tok("close")>>

Manifests == {ManifestAlpha, ManifestAlphaCli, ManifestBeta, ManifestNoName}

DirNames == {"alpha", "Alpha", "beta"}

Dir(name, m) ==
  [name |-> name, is_dir |-> TRUE, has_manifest |-> TRUE, readable |-> TRUE, content |-> m]
DirUnreadable(name) ==
  [name |-> name, is_dir |-> TRUE, has_manifest |-> TRUE, readable |-> FALSE, content |-> <<>>]
DirNoManifest(name) ==
  [name |-> name, is_dir |-> TRUE, has_manifest |-> FALSE, readable |-> FALSE, content |-> <<>>]
PlainFile(name) ==
  [name |-> name, is_dir |-> FALSE, has_manifest |-> FALSE, readable |-> FALSE, content |-> <<>>]

HealthyEntries == {Dir(n, m) : n \in DirNames, m \in Manifests}
BrokenEntries == {DirNoManifest(n) : n \in DirNames} \cup {DirUnreadable(n) : n \in DirNames}
FileEntries == {PlainFile(n) : n \in DirNames}

\* The listings iterdir() can return: at most max entries, of distinct names.
Listings(entries, max) ==
  {l \in UNION {[1..n -> entries] : n \in 0..max} :
     \A i, j \in 1..Len(l) : l[i].name = l[j].name => i = j}

SeqsUpTo(S, max) == UNION {[1..n -> S] : n \in 0..max}

PinAlpha ==
  [identity |-> "alpha", location |-> "https://example.com/alpha.git",
   state |-> [revision |-> "r1", version |-> "1.0.0"]]
PinAlphaV1 ==
  [package |-> "Alpha", repositoryURL |-> "https://example.com/alpha.git",
   state |-> [branch |-> "main", revision |-> "r2", version |-> None]]
PinBeta ==
  [identity |-> "beta", state |-> [revision |-> "r3", version |-> "2.0.0"]]

ResolvePins == {PinAlpha, PinAlphaV1, PinBeta}

Absent == [exists |-> FALSE, data |-> [version |-> "0"]]
File(data) == [exists |-> TRUE, data |-> data]
TopDoc(pins) == [pins |-> pins, version |-> "2"]
NestedDoc(pins) == [object |-> [pins |-> pins], version |-> "1"]
UnknownDocs == {[version |-> "2"], [object |-> [version |-> "1"], version |-> "1"]}

CacheDir(stem, mtime, co) == [stem |-> stem, mtime |-> mtime, co |-> co]
CacheDirs ==
  {CacheDir(s, m, c) : s \in {"My_App", "Other"}, m \in 1..MaxMtime,
                       c \in {"none", "empty", "tree"}}
NoBase == [base |-> FALSE, dirs |-> <<>>]
Base(dirs) == [base |-> TRUE, dirs |-> dirs]
DerivedStates == {NoBase} \cup {Base(ds) : ds \in SeqsUpTo(CacheDirs, MaxCacheDirs)}

MkDisk(primary, fallback, derived, tree) ==
  [project |-> "My App", primary |-> primary, fallback |-> fallback,
   derived |-> derived, tree |-> tree]

\* Every lockfile, one materialized cache: the checkouts vary.
DisksCheckouts ==
  {MkDisk(File(TopDoc(p)), Absent, Base(<<CacheDir("My_App", 1, "tree")>>), t) :
     p \in SeqsUpTo(ResolvePins, MaxPins),
     t \in Listings(HealthyEntries \cup {DirNoManifest(n) : n \in DirNames}, MaxDirs)}

\* Every lockfile location and shape and every cache state, over one tree.
LockfilePairs ==
  {<<f1, f2>> : f1 \in {Absent, File(TopDoc(<<PinAlpha, PinBeta>>))},
                f2 \in {Absent, File(NestedDoc(<<PinBeta, PinAlphaV1>>))}}
    \cup {<<File(u), Absent>> : u \in UnknownDocs}

DisksCache ==
  {MkDisk(fs[1], fs[2], dd, <<Dir("alpha", ManifestAlpha), Dir("Alpha", ManifestBeta)>>) :
     fs \in LockfilePairs, dd \in DerivedStates}

\* Every lockfile, no usable cache.
DisksNoCache ==
  {MkDisk(File(TopDoc(p)), Absent, dd, <<Dir("alpha", ManifestAlpha)>>) :
     p \in SeqsUpTo(ResolvePins, MaxPins),
     dd \in {NoBase, Base(<<>>), Base(<<CacheDir("Other", 1, "tree")>>),
             Base(<<CacheDir("My_App", 1, "none")>>)}}

Idle == [arg |-> None, res |-> None]

InitRest ==
  /\ result = NotRun
  /\ prev = NotRun
  /\ lookup = Idle
  /\ base = NotRun
  /\ degraded = None
  /\ docs = <<>>
  /\ parsed = <<>>
  /\ loc = <<>>

Init ==
  /\ disk \in DisksCheckouts \cup DisksCache \cup DisksNoCache
  /\ InitRest

\* resolve(project): one call of get_all_dependencies on the disk as it is.
Resolve(verbose) ==
  /\ prev' = result
  /\ result' = get_all_dependencies(disk, verbose)
  /\ lookup' = Idle
  /\ UNCHANGED <<disk, base, degraded, docs, parsed, loc>>

Lookups == {"alpha", "Alpha", "Beta", "Core", "Cli", "CoreTests", "nonexistent"}

\* resolve_module_to_package(x, map) on the map of the last call.
Lookup(x) ==
  /\ result.status = "ok"
  /\ lookup' = [arg |-> x, res |-> resolve_module_to_package(x, result.deps)]
  /\ UNCHANGED <<disk, result, prev, base, degraded, docs, parsed, loc>>

Next == \E verbose \in BOOLEAN : Resolve(verbose)

Spec == Init /\ [][Next]_vars

\* Calls of resolve followed by lookups in the returned map.
DisksLookup ==
  {MkDisk(File(TopDoc(p)), Absent, Base(<<CacheDir("My_App", 1, "tree")>>), t) :
     p \in SeqsUpTo(ResolvePins, MaxPins),
     t \in Listings({Dir(n, m) : n \in DirNames,
                                 m \in {ManifestAlpha, ManifestAlphaCli, ManifestBeta}}
                    \cup {DirNoManifest("alpha")}, MaxDirs)}

InitLookup ==
  /\ disk \in DisksLookup
  /\ InitRest

NextLookup ==
  \/ \E verbose \in BOOLEAN : Resolve(verbose)
  \/ \E x \in Lookups : Lookup(x)

SpecLookup == InitLookup /\ [][NextLookup]_vars

(***************************************************************************)
(* A checkout degrades between two calls: its manifest vanishes or becomes *)
(* unreadable.  base keeps the result of the call made while it was        *)
(* healthy.                                                                *)
(***************************************************************************)
Degrade(name, broken) ==
  /\ result.status = "ok"
  /\ degraded = None
  /\ \E i \in 1..Len(disk.tree) :
       /\ disk.tree[i].name = name
       /\ HasManifest(disk.tree[i]) /\ disk.tree[i].readable
       /\ disk' = [disk EXCEPT !.tree[i] = broken]
  /\ base' = result
  /\ degraded' = name
  /\ result' = NotRun
  /\ prev' = NotRun
  /\ lookup' = Idle
  /\ UNCHANGED <<docs, parsed, loc>>

NextDegrade ==
  \/ \E verbose \in BOOLEAN : Resolve(verbose)
  \/ \E name \in DirNames : Degrade(name, DirNoManifest(name))
  \/ \E name \in DirNames : Degrade(name, DirUnreadable(name))

DisksDegrade ==
  {MkDisk(File(TopDoc(p)), Absent, Base(<<CacheDir("My_App", 1, "tree")>>), t) :
     p \in SeqsUpTo(ResolvePins, MaxPins),
     t \in Listings({Dir(n, m) : n \in DirNames, m \in {ManifestAlpha, ManifestBeta}}
                    \cup BrokenEntries, MaxDirs)}
    \cup {MkDisk(fs[1], fs[2], dd, <<Dir("alpha", ManifestAlpha), Dir("beta", ManifestBeta)>>) :
            fs \in LockfilePairs,
            dd \in {NoBase, Base(<<CacheDir("My_App", 1, "tree")>>)}}

InitDegrade ==
  /\ disk \in DisksDegrade
  /\ InitRest

SpecDegrade == InitDegrade /\ [][NextDegrade]_vars

(***************************************************************************)
(* LockfileParser alone: parse_package_resolved followed by                *)
(* extract_package_info of every pin, on lockfile contents that carry the  *)
(* same pins in each shape and each field-name convention.                 *)
(***************************************************************************)
ParseLockfile(data) ==
  LET pins == parse_package_resolved(data)
  IN  [done |-> TRUE, ok |-> pins.ok,
       pins |-> [i \in 1..Len(pins.pins) |-> extract_package_info(pins.pins[i])]]

NotParsed == [done |-> FALSE, ok |-> FALSE, pins |-> <<>>]

\* A pin in the v2/v3 convention (identity, location) and in the v1
\* convention (package, repositoryURL).  a.id and a.url are None when the
\* pin has no such field, a.state is <<>> when it has no state object.
Fields(key, value) == IF value = None THEN <<>> ELSE key :> value
StateField(a) == IF a.state = <<>> THEN <<>> ELSE "state" :> a.state

EncodeNew(a) ==
  Fields("identity", a.id) @@ Fields("location", a.url) @@ StateField(a)
      @@ ("kind" :> "remoteSourceControl")
EncodeOld(a) ==
  Fields("package", a.id) @@ Fields("repositoryURL", a.url) @@ StateField(a)
      @@ ("kind" :> "remoteSourceControl")

StateObjects ==
  {[branch |-> "main"]}
    \cup {[version |-> v] : v \in {None, "1.0.0"}}
    \cup {[revision |-> r] : r \in {None, "r1"}}
    \cup {[version |-> v, revision |-> r] : v \in {None, "1.0.0"}, r \in {None, "r1"}}

AbstractPin(id, url, state) == [id |-> id, url |-> url, state |-> state]

WidePins ==
  {AbstractPin(id, url, st) :
     id \in {"alpha", None}, url \in {"https://example.com/alpha.git", None},
     st \in StateObjects \cup {<<>>}}

ListPins ==
  {AbstractPin(id, "https://example.com/alpha.git", st) :
     id \in {"alpha", "beta"},
     st \in {[version |-> "1.0.0", revision |-> "r1"],
             [branch |-> "main", revision |-> "r1"]}}

Encodings(as) ==
  <<TopDoc([i \in 1..Len(as) |-> EncodeNew(as[i])]),
    NestedDoc([i \in 1..Len(as) |-> EncodeOld(as[i])]),
    TopDoc([i \in 1..Len(as) |-> EncodeOld(as[i])]),
    NestedDoc([i \in 1..Len(as) |-> EncodeNew(as[i])])>>

InitParse ==
  /\ \E as \in SeqsUpTo(ListPins, MaxPins) \cup {<<a>> : a \in WidePins} :
       docs = Encodings(as)
  /\ parsed = [k \in 1..4 |-> NotParsed]
  /\ disk = MkDisk(Absent, Absent, NoBase, <<>>)
  /\ result = NotRun
  /\ prev = NotRun
  /\ lookup = Idle
  /\ base = NotRun
  /\ degraded = None
  /\ loc = <<>>

Parse(k) ==
  /\ ~parsed[k].done
  /\ parsed' = [parsed EXCEPT ![k] = ParseLockfile(docs[k])]
  /\ UNCHANGED <<disk, result, prev, lookup, base, degraded, docs, loc>>

NextParse == \E k \in 1..4 : Parse(k)

SpecParse == InitParse /\ [][NextParse]_vars

(***************************************************************************)
(* ManifestLocator alone: find_package_swift_in_derived_data on every      *)
(* listing of a checkouts directory.                                       *)
(***************************************************************************)
Pending == "<pending>"

Identities == {"alpha", "Alpha", "ALPHA", "beta"}

InitLocate ==
  /\ \E l \in Listings(HealthyEntries \cup BrokenEntries \cup FileEntries, MaxDirs),
        id \in Identities :
       loc = [checkouts |-> l, identity |-> id, found |-> Pending]
  /\ disk = MkDisk(Absent, Absent, NoBase, <<>>)
  /\ result = NotRun
  /\ prev = NotRun
  /\ lookup = Idle
  /\ base = NotRun
  /\ degraded = None
  /\ docs = <<>>
  /\ parsed = <<>>

Locate ==
  /\ loc.found = Pending
  /\ loc' = [loc EXCEPT !.found =
               find_package_swift_in_derived_data(loc.checkouts, loc.identity)]
  /\ UNCHANGED <<disk, result, prev, lookup, base, degraded, docs, parsed>>

NextLocate == Locate

SpecLocate == InitLocate /\ [][NextLocate]_vars

(***************************************************************************)
(* Claims about LockfileParser (under SpecParse).                          *)
(***************************************************************************)
RawPins(k) == parse_package_resolved(docs[k]).pins

Present(obj, key) == key \in DOMAIN obj /\ obj[key] # None

\* The version C8 states for a raw pin.
StatedVersion(pin) ==
  LET st == IF "state" \in DOMAIN pin THEN pin.state ELSE <<>>
  IN  IF Present(st, "version") THEN st.version
      ELSE IF Present(st, "revision") THEN st.revision
      ELSE "unknown"

C8_VersionNeverAbsent ==
  \A k \in DOMAIN parsed :
    parsed[k].done /\ parsed[k].ok =>
      \A i \in 1..Len(parsed[k].pins) :
        /\ parsed[k].pins[i].version = StatedVersion(RawPins(k)[i])
        /\ Truthy(parsed[k].pins[i].version)

(***************************************************************************)
(* Claims about ManifestLocator (under SpecLocate).                        *)
(***************************************************************************)
IsCandidate(e, id) == e.is_dir /\ Lower(e.name) = Lower(id)

FirstIn(S) == CHOOSE i \in S : \A j \in S : i <= j

\* The first matching candidate directory: the exact-name directory when it
\* exists, otherwise the first case-insensitive match.
FirstCandidate(l, id) ==
  LET exact == {i \in 1..Len(l) : l[i].is_dir /\ l[i].name = id}
      fuzzy == {i \in 1..Len(l) : IsCandidate(l[i], id)}
  IN  IF exact # {} THEN FirstIn(exact) ELSE IF fuzzy # {} THEN FirstIn(fuzzy) ELSE 0

\* C4 as claimed: only the first matching candidate directory is used, and
\* the lookup is absent when that directory holds no manifest.
C4_FirstCandidateOnly ==
  loc # <<>> /\ loc.found # Pending =>
    LET c == FirstCandidate(loc.checkouts, loc.identity)
    IN  loc.found = IF c # 0 /\ HasManifest(loc.checkouts[c])
                      THEN loc.checkouts[c].name ELSE None

\* C4 as amended: the exact-name directory is used when it holds a
\* manifest; otherwise the first directory, in listing order, whose name
\* matches case-insensitively and which holds a manifest; the lookup is
\* absent only when no matching directory holds a manifest.
C4_FirstManifestAmongCandidates ==
  loc # <<>> /\ loc.found # Pending =>
    LET l == loc.checkouts
        id == loc.identity
        holding == {i \in 1..Len(l) : IsCandidate(l[i], id) /\ HasManifest(l[i])}
    IN  /\ (\E i \in holding : l[i].name = id) => loc.found = id
        /\ (holding # {} /\ ~\E i \in holding : l[i].name = id) =>
             loc.found = l[FirstIn(holding)].name
        /\ holding = {} <=> loc.found = None

C4_Witness ==
  /\ loc # <<>> /\ loc.found = "Alpha" /\ loc.identity = "alpha"
  /\ \E i \in 1..Len(loc.checkouts) :
       /\ loc.checkouts[i].name = "alpha"
       /\ loc.checkouts[i].is_dir
       /\ ~loc.checkouts[i].has_manifest

(***************************************************************************)
(* Claims about resolve (under Spec, SpecLookup and SpecDegrade).          *)
(***************************************************************************)
Located == disk.primary.exists \/ disk.fallback.exists

TheLockfile == IF disk.primary.exists THEN disk.primary.data ELSE disk.fallback.data

Recognized ==
  \/ "pins" \in DOMAIN TheLockfile
  \/ "object" \in DOMAIN TheLockfile /\ "pins" \in DOMAIN TheLockfile.object

LockPins == parse_package_resolved(TheLockfile).pins

Identity(i) == extract_package_info(LockPins[i]).name

Keys(deps) == {deps[i].name : i \in 1..Len(deps)}

Elems(seq) == {seq[i] : i \in 1..Len(seq)}

TheCheckouts == find_derived_data_path(disk)

\* The project has no cache root, no cache directory, or no checkouts
\* directory in any of its cache directories.
NoCacheForProject ==
  \/ ~disk.derived.base
  \/ \A i \in 1..Len(disk.derived.dirs) :
       disk.derived.dirs[i].stem = "My_App" => disk.derived.dirs[i].co = "none"

\* No directory of the checkouts that matches the identity holds a manifest.
ManifestMissing(i) ==
  \/ ~TheCheckouts.ok
  \/ \A e \in Elems(TheCheckouts.checkouts) :
       IsCandidate(e, Identity(i)) => ~HasManifest(e)

ManifestUnreadable(i) ==
  /\ result.trace[i].path # None
  /\ ~EntryNamed(TheCheckouts.checkouts, result.trace[i].path).readable

DistinctIdentities ==
  \A i, j \in 1..Len(LockPins) : Identity(i) = Identity(j) => i = j

\* C2: with n pins of distinct identities and no cache for the project,
\* resolve returns n entries, one per identity, each with no exported
\* modules and with the version and repository of its pin.
C2_NoCacheStillResolves ==
  (result.status # "none" /\ Located /\ Recognized
     /\ DistinctIdentities /\ NoCacheForProject) =>
    /\ result.status = "ok"
    /\ Len(result.deps) = Len(LockPins)
    /\ \A i \in 1..Len(LockPins) :
         \E k \in 1..Len(result.deps) :
           /\ result.deps[k].name = Identity(i)
           /\ result.deps[k].exported_modules = <<>>
           /\ result.deps[k].version = extract_package_info(LockPins[i]).version
           /\ result.deps[k].repo = extract_package_info(LockPins[i]).url

C2_Witness ==
  /\ result.status = "ok" /\ NoCacheForProject /\ DistinctIdentities
  /\ Len(result.deps) = 2
  /\ Keys(result.deps) = {"alpha", "beta"}
  /\ disk.derived.base /\ disk.derived.dirs # <<>>

\* C5: every entry's exportedModules is strictly ascending: sorted and
\* without duplicates.
C5_ModulesAreOrderedSet ==
  result.status = "ok" =>
    \A e \in Elems(result.deps) :
      \A k \in 1..(Len(e.exported_modules) - 1) :
        StrLess(e.exported_modules[k], e.exported_modules[k + 1])

LastPinNamed(k) ==
  LET S == {i \in 1..Len(result.trace) : result.trace[i].name = k}
  IN  CHOOSE i \in S : \A j \in S : j <= i

\* C7: keys are unique; a key holds the version, repository and modules of
\* the last pin, in lockfile order, that resolves to it; the map has no
\* more entries than the lockfile has pins.
C7_UniqueKeysLastWins ==
  result.status = "ok" =>
    /\ \A a, b \in 1..Len(result.deps) :
         result.deps[a].name = result.deps[b].name => a = b
    /\ Len(result.deps) <= Len(LockPins)
    /\ Keys(result.deps) = {result.trace[i].name : i \in 1..Len(result.trace)}
    /\ \A a \in 1..Len(result.deps) :
         result.deps[a] = Entry(result.trace[LastPinNamed(result.deps[a].name)])

C7_Witness ==
  /\ result.status = "ok" /\ Len(result.trace) = 2 /\ Len(result.deps) = 1
  /\ result.trace[1].name = result.trace[2].name
  /\ result.trace[1].path # None /\ result.trace[2].path = None
  /\ result.trace[1].version # result.trace[2].version
  /\ result.deps[1].version = result.trace[2].version

Exports(e, x) == x \in Elems(e.exported_modules)

\* C6: a key resolves to itself; any other name resolves to the key of the
\* first entry, in insertion order, that exports it; else to absent.  A
\* result that is not absent is a key.
C6_LookupOrder ==
  lookup.arg # None =>
    LET x == lookup.arg
        deps == result.deps
        exporting == {i \in 1..Len(deps) : Exports(deps[i], x)}
    IN  /\ x \in Keys(deps) => lookup.res = x
        /\ (x \notin Keys(deps) /\ exporting # {}) =>
             lookup.res = deps[FirstIn(exporting)].name
        /\ (x \notin Keys(deps) /\ exporting = {}) => lookup.res = None
        /\ lookup.res # None => lookup.res \in Keys(deps)

C6_Witness ==
  /\ lookup.arg = "Alpha" /\ lookup.res = "Alpha"
  /\ Len(result.deps) = 2
  /\ result.deps[1].name = "Beta" /\ Exports(result.deps[1], "Alpha")
  /\ result.deps[2].name = "Alpha"

\* The name and the library and executable targets a manifest declares.
DeclaredName(content) ==
  IF \E i \in 1..(Len(content) - 1) :
       content[i].t = "Package" /\ content[i + 1].t = "name"
    THEN content[(CHOOSE i \in 1..(Len(content) - 1) :
                    content[i].t = "Package" /\ content[i + 1].t = "name") + 1].s
  ELSE None

DeclaredTargets(content) ==
  {content[i + 1].s : i \in {k \in 1..(Len(content) - 1) :
                              content[k].t \in {"target", "exec"}
                              /\ content[k + 1].t = "name"}}

ManifestOf(i) == EntryNamed(TheCheckouts.checkouts, result.trace[i].path)

Declares(i) ==
  /\ result.trace[i].path # None
  /\ ManifestOf(i).readable
  /\ DeclaredName(ManifestOf(i).content) # None

KeyedByDeclaredName(i) ==
  LET D == DeclaredName(ManifestOf(i).content)
  IN  /\ result.trace[i].name = D
      /\ D \in Keys(result.deps)
      /\ (Identity(i) # D /\ Identity(i) \in Keys(result.deps)) =>
           \E j \in 1..Len(result.trace) : j # i /\ result.trace[j].name = Identity(i)
      /\ Elems(result.trace[i].exported_modules) = DeclaredTargets(ManifestOf(i).content)

\* C9 as claimed: a pin whose manifest is found is keyed by the declared
\* name, exports exactly the library and executable targets, and each of
\* these modules resolves to the declared name.
C9_ModulesResolveToDeclaredName ==
  result.status = "ok" =>
    \A i \in 1..Len(result.trace) :
      Declares(i) =>
        /\ KeyedByDeclaredName(i)
        /\ Exports(result.trace[i], lookup.arg) => lookup.res = result.trace[i].name

PositionOf(deps, k) == CHOOSE a \in 1..Len(deps) : deps[a].name = k

\* C9 as amended: the same, except that a module resolves to the declared
\* name only when no later pin has overwritten the pin's entry, the module
\* is not itself a key of the map and no entry earlier in the map exports
\* it; while the entry stands, the module resolves to some key of the map.
C9_ModulesResolveUnlessShadowed ==
  result.status = "ok" =>
    \A i \in 1..Len(result.trace) :
      Declares(i) =>
        /\ KeyedByDeclaredName(i)
        /\ Exports(result.trace[i], lookup.arg) =>
             LET D == result.trace[i].name
                 a == PositionOf(result.deps, D)
             IN  result.deps[a] = Entry(result.trace[i]) =>
                   /\ lookup.res \in Keys(result.deps)
                   /\ (/\ lookup.arg \notin Keys(result.deps)
                       /\ \A b \in 1..(a - 1) : ~Exports(result.deps[b], lookup.arg))
                        => lookup.res = D

C9_Witness ==
  /\ result.status = "ok" /\ Len(result.trace) = 2
  /\ Declares(1) /\ Identity(1) = "alpha" /\ result.trace[1].name = "Alpha"
  /\ "alpha" \notin Keys(result.deps)
  /\ ManifestOf(1).content = ManifestAlpha
  /\ result.deps[1].exported_modules = <<"Core">>
  /\ lookup.arg = "Core" /\ lookup.res = "Alpha"

====
